---- MODULE Spec2Model ----
(***************************************************************************)
(* Model of the starnavi_fastapi blogging backend: the AI moderation gate  *)
(* (app/ai_tools.py), the post and comment routers (app/routers) with the  *)
(* ORM validators (app/models.py), and the auto-reply task queue           *)
(* (app/tasks.py).                                                         *)
(***************************************************************************)
EXTENDS Integers, Sequences, FiniteSets, Bags, TLC

VARIABLES
    \* moderate_content_with_ai, run as a process of its own (SpecGate)
    gate_pc,          \* "loop" | "returned" | "raised"
    count,            \* local `count`
    response,         \* local `response`: None or the AI response
    sleeps,           \* number of time.sleep(5) calls made so far
    result,           \* the returned (blocked, reason), None before the return
    \* the relational store and the broker, driven by the routers (Spec)
    posts,            \* id -> Post row
    comments,         \* id -> Comment row
    next_post_id,     \* posts.id sequence
    next_comment_id,  \* comments.id sequence
    tasks,            \* bag of enqueued send_auto_reply tasks
    last,             \* the last request and its HTTP response
    today,            \* the calendar day of datetime.utcnow()
    \* the users table, driven by concurrent registrations (SpecRegister)
    user_rows,        \* the stored users, in the order of their insertion
    registering,      \* client -> the payload of its request in flight, or None
    reg_last,         \* the last answered registration
    \* requests that have read the store and not yet committed (SpecRace)
    sessions,         \* request -> what its AsyncSession holds, or None
    \* history of the auto-reply pipeline, kept for the proofs (SpecPipeline)
    pipeline          \* counts of triggering requests, enqueued tasks, replies

gate_vars == <<gate_pc, count, response, sleeps, result>>
api_vars == <<posts, comments, next_post_id, next_comment_id, tasks, last, today>>
reg_vars == <<user_rows, registering, reg_last>>
txn_vars == <<sessions>>
hist_vars == <<pipeline>>
vars == <<gate_pc, count, response, sleeps, result,
          posts, comments, next_post_id, next_comment_id, tasks, last, today,
          user_rows, registering, reg_last, sessions, pipeline>>

\* Python's None (every optional value is a record or a sequence, never a string)
None == [kind |-> "None"]

(***************************************************************************)
(* Bounds of the model                                                     *)
(***************************************************************************)
\* candidates in one AI response
MaxCandidates == 2
\* safety ratings in one AI response, over all its candidates
MaxRatings == 2

(***************************************************************************)
(* The AI service's answers (google.generativeai, an external collaborator)*)
(***************************************************************************)
\* harm categories the service may report: 7 and 10 are the first and the
\* last of the mapped ones, 11 is a category the mapping does not know
Categories == {7, 10, 11}
\* the ordinal probability scale of a safety rating, around the threshold
Probabilities == 1..3
Ratings == [category : Categories, probability : Probabilities]

\* all lists of exactly m ratings
RatingLists(m) == [1..m -> Ratings]

RECURSIVE CandidateLists(_, _)
\* all lists of exactly k candidates holding at most n ratings together
CandidateLists(k, n) ==
    IF k = 0 THEN {<<>>}
    ELSE UNION { { <<[safety_ratings |-> rs]>> \o rest :
                       rs \in RatingLists(m),
                       rest \in CandidateLists(k - 1, n - m) } :
                 m \in 0..n }

Responses ==
    { [kind |-> "response", candidates |-> cs] :
          cs \in UNION { CandidateLists(k, MaxRatings) : k \in 0..MaxCandidates } }

(***************************************************************************)
(* app/ai_tools.py: moderate_content_with_ai                               *)
(***************************************************************************)
safety_categories ==
    [c \in 7..10 |->
        CASE c = 7 -> "HARM_CATEGORY_HARASSMENT"
          [] c = 8 -> "HARM_CATEGORY_HATE_SPEECH"
          [] c = 9 -> "HARM_CATEGORY_SEXUALLY_EXPLICIT"
          [] c = 10 -> "HARM_CATEGORY_DANGEROUS_CONTENT"]

\* safety_categories.get(rating.category, "UNKNOWN_CATEGORY")
category_name(rating) ==
    IF rating.category \in DOMAIN safety_categories
    THEN safety_categories[rating.category]
    ELSE "UNKNOWN_CATEGORY"

\* the retry bound of `while count <= 3`
RetryLimit == 3
\* the severity tier of `rating.probability >= 2`
BlockThreshold == 2

rating_blocksMutLow(rating) == rating.probability >= BlockThreshold - 1
\* `if rating.probability >= 2`
rating_blocks(rating) == rating.probability >= BlockThreshold

RECURSIVE scan_ratings(_)
\* `for rating in candidate.safety_ratings`: the first rating at or above the
\* threshold returns (True, category_name); None when the loop falls through
scan_ratings(ratings) ==
    IF ratings = <<>> THEN None
    ELSE IF rating_blocks(Head(ratings))
         THEN [blocked |-> TRUE, reason |-> category_name(Head(ratings))]
         ELSE scan_ratings(Tail(ratings))

\* `for candidate in response.candidates`: the `return False, ""` of line 61
\* sits inside this loop, after the loop over the ratings, so the loop body
\* returns during the first candidate
scan_candidates(candidates) ==
    LET hit == scan_ratings(Head(candidates).safety_ratings)
    IN  IF hit # None THEN hit ELSE [blocked |-> FALSE, reason |-> ""]

unavailable_verdictMutOpen == [blocked |-> FALSE, reason |-> ""]
\* `return True, "Error while AI text proceeds"`
unavailable_verdict == [blocked |-> TRUE, reason |-> "Error while AI text proceeds"]

\* lines 50-63: the value returned for the final value of `response`
inspect(resp) ==
    IF resp = None THEN unavailable_verdict
    ELSE IF resp.candidates # <<>> THEN scan_candidates(resp.candidates)
         ELSE [blocked |-> FALSE, reason |-> ""]

after_exceptionMutPropagates == "raised"
\* `except Exception as e:` catches what model.generate_content raises, and
\* the loop goes on
after_exception == "loop"

\* one iteration of `while count <= 3 and not response` in which
\* model.generate_content raises: the except clause prints and sleeps
GateAttemptRaises ==
    /\ gate_pc = "loop"
    /\ count <= RetryLimit /\ response = None
    /\ count' = count + 1
    /\ gate_pc' = after_exception
    /\ sleeps' = IF after_exception = "loop" THEN sleeps + 1 ELSE sleeps
    /\ UNCHANGED <<response, result>>

\* one iteration in which model.generate_content returns a response
GateAttemptAnswers ==
    /\ gate_pc = "loop"
    /\ count <= RetryLimit /\ response = None
    /\ count' = count + 1
    /\ \E r \in Responses : response' = r
    /\ UNCHANGED <<gate_pc, sleeps, result>>

\* the loop condition is false: lines 50-63 return
GateReturn ==
    /\ gate_pc = "loop"
    /\ ~(count <= RetryLimit /\ response = None)
    /\ gate_pc' = "returned"
    /\ result' = inspect(response)
    /\ UNCHANGED <<count, response, sleeps>>

GateInit ==
    /\ gate_pc = "loop"
    /\ count = 0
    /\ response = None
    /\ sleeps = 0
    /\ result = None

(***************************************************************************)
(* app/models.py: rows and validators                                      *)
(***************************************************************************)
\* SQL NULL of an integer column (ids start at 1)
NoId == 0

\* a text is a sequence of characters
Blank == " "

RECURSIVE lstrip(_)
lstrip(s) == IF s # <<>> /\ Head(s) = Blank THEN lstrip(Tail(s)) ELSE s

RECURSIVE rstrip(_)
rstrip(s) ==
    IF s # <<>> /\ s[Len(s)] = Blank THEN rstrip(SubSeq(s, 1, Len(s) - 1)) ELSE s

\* str.strip()
strip(s) == rstrip(lstrip(s))

is_emptyMutNoStrip(value) == value = <<>>
\* `not value or value.strip() == ""` of validate_non_empty_string
is_empty(value) == value = <<>> \/ strip(value) = <<>>

\* Post(**post.dict(), ...): the validators run in the order of the keyword
\* arguments, title before content; the result is the ValueError message or ""
post_value_error(title, content) ==
    IF is_empty(title) THEN "Title cannot be an empty string."
    ELSE IF is_empty(content) THEN "Content cannot be an empty string."
    ELSE ""

\* Comment(content=...): the ValueError message or ""
comment_value_error(content) ==
    IF is_empty(content) THEN "Content cannot be an empty string." ELSE ""

\* the users table: registered accounts, user 1 being a superuser
Users == {1, 2}
is_superuser(u) == u = 1
\* a request without a valid bearer token
Anonymous == 0


(***************************************************************************)
(* HTTP responses.  A handler is an operator that gives, for the current   *)
(* store and the request's inputs, its outcome: the response and the store *)
(* it commits.                                                             *)
(***************************************************************************)
Outcome(status, detail, reason, body, ps, cs, np, nc, ts) ==
    [status |-> status, detail |-> detail, block_reason |-> reason, body |-> body,
     posts |-> ps, comments |-> cs, next_post_id |-> np, next_comment_id |-> nc,
     tasks |-> ts]

\* an HTTPException (or an unhandled exception): nothing is committed
Refused(status, detail) ==
    Outcome(status, detail, "", None,
            posts, comments, next_post_id, next_comment_id, tasks)

\* get_current_user raises 401 before the handler runs
Unauthorized == Refused(401, "Not authenticated")

BlockedNotice == "Content was blocked, reason - it contains inappropriate content"

\* check_blocked_obj_content: a blocked object is answered by a 400 notice that
\* carries obj.block_reason, any other object is returned as the body
check_blocked_obj_content(obj, okStatus, ps, cs, np, nc, ts) ==
    IF obj.is_blocked
    THEN Outcome(400, BlockedNotice, obj.block_reason, None, ps, cs, np, nc, ts)
    ELSE Outcome(okStatus, "", "", obj, ps, cs, np, nc, ts)

(***************************************************************************)
(* app/routers/tools.py: moderate_content                                  *)
(***************************************************************************)
moderate_contentMutContentFirst(has_title, ai_title, ai_content) ==
    IF inspect(ai_content).blocked \/ ~has_title
    THEN inspect(ai_content)
    ELSE inspect(ai_title)
\* the (is_blocked, block_reason) of a request: ai_title and ai_content are
\* what the AI service finally answered for each field (the final value of
\* `response` in moderate_content_with_ai)
moderate_content(has_title, ai_title, ai_content) ==
    IF has_title /\ inspect(ai_title).blocked
    THEN inspect(ai_title)
    ELSE inspect(ai_content)

(***************************************************************************)
(* app/routers/posts.py                                                    *)
(***************************************************************************)
new_post_rowMutUnblocked(id, user, post, verdict) ==
    [id |-> id, title |-> post.title, content |-> post.content,
     author_id |-> user, is_blocked |-> FALSE, block_reason |-> "",
     auto_reply_enabled |-> post.auto_reply_enabled,
     reply_delay |-> post.reply_delay]
\* Post(**post.dict(), author_id=..., is_blocked=..., block_reason=...)
new_post_row(id, user, post, verdict) ==
    [id |-> id, title |-> post.title, content |-> post.content,
     author_id |-> user, is_blocked |-> verdict.blocked,
     block_reason |-> verdict.reason,
     auto_reply_enabled |-> post.auto_reply_enabled,
     reply_delay |-> post.reply_delay]

\* POST /posts/create: create_post and create_new_post
create_post(user, post, verdict) ==
    IF user = Anonymous THEN Unauthorized
    ELSE IF post_value_error(post.title, post.content) # ""
    THEN \* `except ValueError as e: raise HTTPException(status_code=422, ...)`
         Refused(422, post_value_error(post.title, post.content))
    ELSE LET row == new_post_row(next_post_id, user, post, verdict)
         IN  check_blocked_obj_content(row, 201,
                 posts @@ (next_post_id :> row), comments,
                 next_post_id + 1, next_comment_id, tasks)

list_postsMutAll == {posts[i] : i \in DOMAIN posts}
\* GET /posts/list: select(Post).where(Post.is_blocked == False)
list_posts == {posts[i] : i \in {j \in DOMAIN posts : posts[j].is_blocked = FALSE}}

\* GET /posts/{post_id}: the row as it is stored, serialised as PostOut
get_post(post_id) ==
    IF post_id \notin DOMAIN posts
    THEN [status |-> 404, detail |-> "Post not found", body |-> None]
    ELSE [status |-> 200, detail |-> "", body |-> posts[post_id]]

updated_post_rowMutKeepsFlags(post, data, verdict) ==
    [id |-> post.id,
     title |-> IF "title" \in data.fields THEN data.title ELSE post.title,
     content |-> IF "content" \in data.fields THEN data.content ELSE post.content,
     author_id |-> post.author_id,
     is_blocked |-> post.is_blocked,
     block_reason |-> post.block_reason,
     auto_reply_enabled |-> IF "auto_reply_enabled" \in data.fields
                            THEN data.auto_reply_enabled ELSE post.auto_reply_enabled,
     reply_delay |-> IF "reply_delay" \in data.fields
                     THEN data.reply_delay ELSE post.reply_delay]
\* `for key, value in post_data.dict(exclude_unset=True).items(): setattr(...)`
\* after `post.is_blocked = is_blocked; post.block_reason = block_reason`;
\* data.fields are the fields the request body sets
updated_post_row(post, data, verdict) ==
    [id |-> post.id,
     title |-> IF "title" \in data.fields THEN data.title ELSE post.title,
     content |-> IF "content" \in data.fields THEN data.content ELSE post.content,
     author_id |-> post.author_id,
     is_blocked |-> verdict.blocked,
     block_reason |-> verdict.reason,
     auto_reply_enabled |-> IF "auto_reply_enabled" \in data.fields
                            THEN data.auto_reply_enabled ELSE post.auto_reply_enabled,
     reply_delay |-> IF "reply_delay" \in data.fields
                     THEN data.reply_delay ELSE post.reply_delay]

\* the ValueError the validators raise during the setattr loop, or ""
update_value_error(data) ==
    IF "title" \in data.fields /\ is_empty(data.title)
    THEN "Title cannot be an empty string."
    ELSE IF "content" \in data.fields /\ is_empty(data.content)
    THEN "Content cannot be an empty string."
    ELSE ""

may_updateMutAdmin(user, obj) == obj.author_id = user \/ is_superuser(user)
\* `if post.author_id != current_user.id: raise 403` (posts and comments)
may_update(user, obj) == obj.author_id = user

may_deleteMutAnyone(user, obj) == TRUE
\* `if obj.author_id != current_user.id and not current_user.is_superuser: raise 403`
may_delete(user, obj) == obj.author_id = user \/ is_superuser(user)

\* PUT /posts/update/{post_id}
update_post(user, post_id, data, verdict) ==
    IF user = Anonymous THEN Unauthorized
    ELSE IF post_id \notin DOMAIN posts THEN Refused(404, "Post not found")
    ELSE IF ~may_update(user, posts[post_id])
    THEN Refused(403, "Not authorized to update this post")
    ELSE IF update_value_error(data) # ""
    THEN Refused(422, update_value_error(data))
    ELSE LET row == updated_post_row(posts[post_id], data, verdict)
         IN  check_blocked_obj_content(row, 200,
                 [posts EXCEPT ![post_id] = row], comments,
                 next_post_id, next_comment_id, tasks)

\* db.delete(post): Post.comments has no cascade, so the flush sets the
\* post_id of the post's comments to NULL
orphaned(cs, post_id) ==
    [i \in DOMAIN cs |->
        IF cs[i].post_id = post_id THEN [cs[i] EXCEPT !.post_id = NoId] ELSE cs[i]]

\* DELETE /posts/delete/{post_id}
delete_post(user, post_id) ==
    IF user = Anonymous THEN Unauthorized
    ELSE IF post_id \notin DOMAIN posts THEN Refused(404, "Post not found")
    ELSE IF ~may_delete(user, posts[post_id])
    THEN Refused(403, "Not authorized to delete this post")
    ELSE Outcome(200, "Post deleted successfully", "", None,
                 [i \in DOMAIN posts \ {post_id} |-> posts[i]],
                 orphaned(comments, post_id),
                 next_post_id, next_comment_id, tasks)

(***************************************************************************)
(* app/routers/comments.py and app/routers/tools.py                        *)
(***************************************************************************)
BlockedContent == "You cannot create a comment for blocked content."

check_post_blockedMutOff(post) == FALSE
\* check_post_blocked: TRUE when it raises 403
check_post_blocked(post) == post.is_blocked

check_parentMutOff(parent_id) ==
    IF parent_id \notin DOMAIN comments THEN 404 ELSE 0
\* check_parent_comment_blocked: the status it raises, 0 when it returns
check_parent_comment_blocked(parent_id) ==
    IF parent_id \notin DOMAIN comments THEN 404
    ELSE IF comments[parent_id].is_blocked THEN 403
    ELSE 0

new_comment_rowMutNoReason(id, user, post_id, comment, verdict) ==
    [id |-> id, post_id |-> post_id, parent_id |-> comment.parent_id,
     content |-> comment.content, author_id |-> user,
     is_blocked |-> verdict.blocked, block_reason |-> "", created_at |-> today]
\* Comment(content=..., post_id=..., parent_id=..., author_id=..., ...);
\* created_at takes its default, datetime.utcnow
new_comment_row(id, user, post_id, comment, verdict) ==
    [id |-> id, post_id |-> post_id, parent_id |-> comment.parent_id,
     content |-> comment.content, author_id |-> user,
     is_blocked |-> verdict.blocked, block_reason |-> verdict.reason,
     created_at |-> today]

\* the status of the exception that leaves create_new_comment, 0 when none
\* does: Comment(...) is constructed before the try block, so the validator's
\* ValueError is not turned into the 422 of the except clause and the server
\* answers 500
create_new_comment_error(comment) ==
    IF comment_value_error(comment.content) # "" THEN 500 ELSE 0

countdownMutPlain(post) == post.reply_delay
\* countdown=post.reply_delay * 10
countdown(post) == post.reply_delay * 10

schedulesMutAlways(post, is_blocked) == ~is_blocked
\* `if not is_blocked:` of create_comment, then
\* `if post.auto_reply_enabled and not comment.is_blocked:` of
\* schedule_auto_reply_if_enabled
schedules(post, is_blocked) == ~is_blocked /\ post.auto_reply_enabled

\* send_auto_reply.apply_async(args=[post.id, comment.id], countdown=...)
apply_async(post, comment_id) ==
    tasks (+) SetToBag({[post_id |-> post.id, comment_id |-> comment_id,
                         countdown |-> countdown(post)]})

\* POST /comments/{post_id}/create: create_comment and create_new_comment
create_comment(user, post_id, comment, verdict) ==
    IF user = Anonymous THEN Unauthorized
    ELSE IF post_id \notin DOMAIN posts THEN Refused(404, "Post not found")
    ELSE IF check_post_blocked(posts[post_id]) THEN Refused(403, BlockedContent)
    ELSE IF comment.parent_id # NoId /\ check_parent_comment_blocked(comment.parent_id) = 404
    THEN Refused(404, "Parent comment not found.")
    ELSE IF comment.parent_id # NoId /\ check_parent_comment_blocked(comment.parent_id) = 403
    THEN Refused(403, BlockedContent)
    ELSE IF create_new_comment_error(comment) # 0
    THEN Refused(create_new_comment_error(comment), "Internal Server Error")
    ELSE LET row == new_comment_row(next_comment_id, user, post_id, comment, verdict)
         IN  check_blocked_obj_content(row, 201,
                 posts, comments @@ (next_comment_id :> row),
                 next_post_id, next_comment_id + 1,
                 IF schedules(posts[post_id], verdict.blocked)
                 THEN apply_async(posts[post_id], row.id)
                 ELSE tasks)

\* PUT /comments/{comment_id}
updated_comment_rowMutDetaches(comment, content, verdict) ==
    [comment EXCEPT !.content = content, !.is_blocked = verdict.blocked,
                    !.block_reason = verdict.reason, !.parent_id = NoId]
\* `comment.content = updated_comment.content; comment.is_blocked = is_blocked;
\* comment.block_reason = block_reason`
updated_comment_row(comment, content, verdict) ==
    [comment EXCEPT !.content = content, !.is_blocked = verdict.blocked,
                    !.block_reason = verdict.reason]

update_comment(user, comment_id, content, verdict) ==
    IF user = Anonymous THEN Unauthorized
    ELSE IF comment_id \notin DOMAIN comments THEN Refused(404, "Comment not found")
    ELSE IF ~may_update(user, comments[comment_id])
    THEN Refused(403, "Not authorized to update this comment")
    ELSE IF comment_value_error(content) # ""
    THEN \* `comment.content = ...` is in no try block: the ValueError escapes
         Refused(500, "Internal Server Error")
    ELSE LET row == updated_comment_row(comments[comment_id], content, verdict)
         IN  check_blocked_obj_content(row, 200,
                 posts, [comments EXCEPT ![comment_id] = row],
                 next_post_id, next_comment_id, tasks)

\* GET /comments/{comment_id}: the row as it is stored, serialised as CommentOut,
\* whose post_id is a required int
get_comment(comment_id) ==
    IF comment_id \notin DOMAIN comments
    THEN [status |-> 404, detail |-> "Comment not found", body |-> None]
    ELSE IF comments[comment_id].post_id = NoId
    THEN [status |-> 500, detail |-> "Internal Server Error", body |-> None]
    ELSE [status |-> 200, detail |-> "", body |-> comments[comment_id]]

descendantsMutChildren(cs, ids) ==
    ids \cup {i \in DOMAIN cs : cs[i].parent_id \in ids}

RECURSIVE descendants(_, _)
\* the comments that the `replies` relationship (cascade="all, delete-orphan")
\* deletes with the comments of `ids`: their replies, transitively
descendants(cs, ids) ==
    LET more == {i \in DOMAIN cs : cs[i].parent_id \in ids} \ ids
    IN  IF more = {} THEN ids ELSE descendants(cs, ids \cup more)

\* DELETE /comments/{comment_id}
delete_comment(user, comment_id) ==
    IF user = Anonymous THEN Unauthorized
    ELSE IF comment_id \notin DOMAIN comments THEN Refused(404, "Comment not found")
    ELSE IF ~may_delete(user, comments[comment_id])
    THEN Refused(403, "Not authorized to delete this comment")
    ELSE Outcome(200, "Comment deleted successfully", "", None,
                 posts,
                 [i \in DOMAIN comments \ descendants(comments, {comment_id})
                     |-> comments[i]],
                 next_post_id, next_comment_id, tasks)

(***************************************************************************)
(* app/routers/analytics.py.  A date is the ordinal of its calendar day.   *)
(***************************************************************************)
\* validate_dates: the status it raises, 0 when it returns the two dates
validate_dates(date_from, date_to) == IF date_from > date_to THEN 400 ELSE 0

get_date_rangeMutExclusive(start_date, end_date) == start_date..(end_date - 1)
\* [start_date + timedelta(days=i) for i in range((end_date - start_date).days + 1)]
get_date_range(start_date, end_date) ==
    {start_date + i : i \in 0..((end_date - start_date) + 1) - 1}

\* get_comments_data: one row per day of the range that has comments, with
\* count(Comment.id) and count(case((Comment.is_blocked == True, 1)))
get_comments_data(start_date, end_date) ==
    LET in_range == {i \in DOMAIN comments :
                        /\ comments[i].created_at >= start_date
                        /\ comments[i].created_at <= end_date}
    IN  {[created_date |-> d,
          total_comments |-> Cardinality({i \in in_range : comments[i].created_at = d}),
          blocked_comments |-> Cardinality({i \in in_range :
                                   comments[i].created_at = d /\ comments[i].is_blocked})] :
            d \in {comments[i].created_at : i \in in_range}}

\* build_analytics_dict: zeros for every day of date_range, overwritten by the
\* entries of comments_data
build_analytics_dict(date_range, comments_data) ==
    [d \in date_range \cup {e.created_date : e \in comments_data} |->
        IF \E e \in comments_data : e.created_date = d
        THEN LET e == CHOOSE e \in comments_data : e.created_date = d
             IN  [total_comments |-> e.total_comments,
                  blocked_comments |-> e.blocked_comments]
        ELSE [total_comments |-> 0, blocked_comments |-> 0]]

\* GET /analytics/comments-daily-breakdown
comments_daily_breakdown(user, date_from, date_to) ==
    IF user = Anonymous THEN [status |-> 401, detail |-> "Not authenticated", body |-> None]
    ELSE IF ~is_superuser(user)
    THEN [status |-> 403, detail |-> "Not authorized to retrieve this info", body |-> None]
    ELSE IF validate_dates(date_from, date_to) # 0
    THEN [status |-> 400, detail |-> "date_from must be earlier than date_to.",
          body |-> None]
    ELSE [status |-> 200, detail |-> "",
          body |-> build_analytics_dict(get_date_range(date_from, date_to),
                                        get_comments_data(date_from, date_to))]

(***************************************************************************)
(* app/tasks.py: send_auto_reply                                           *)
(***************************************************************************)
reply_rowMutRoot(id, post, comment, reply_content) ==
    [id |-> id, post_id |-> post.id, parent_id |-> NoId,
     content |-> reply_content, author_id |-> post.author_id,
     is_blocked |-> FALSE, block_reason |-> "", created_at |-> today]
\* the Comment the worker adds: is_blocked and block_reason take the column
\* defaults
reply_row(id, post, comment, reply_content) ==
    [id |-> id, post_id |-> post.id, parent_id |-> comment.id,
     content |-> reply_content, author_id |-> post.author_id,
     is_blocked |-> FALSE, block_reason |-> "", created_at |-> today]

no_result_foundMutRaises == "task raised"
\* `except NoResultFound:` rolls back and prints: the task returns normally
no_result_found == "Post or Comment not found"

after_replyMutChains(ts, post, reply) == ts (+) SetToBag({[post_id |-> post.id, comment_id |-> reply.id, countdown |-> countdown(post)]})
\* after `await db.commit()` of the reply the task only prints: it makes no
\* call of schedule_auto_reply_if_enabled, so the queue stays as it is
after_reply(ts, post, reply) == ts

repliesMutRechecks(post, comment) ==
    post.auto_reply_enabled /\ ~post.is_blocked /\ ~comment.is_blocked
\* between the two scalar_one() and generate_relevant_reply the task reads no
\* column of the post or of the comment: it replies to whatever it loaded
replies(post, comment) == TRUE

deliveredMutRequeued(ts, task) == ts
\* @app.task: the message of a task leaves the queue when the worker takes it,
\* and nothing puts it back (no retry is configured)
delivered(ts, task) == ts (-) SetToBag({task})

\* one run of the Celery task `task`, which leaves the queue; `reply` is what
\* generate_relevant_reply does: it raises (model.generate_content failed) or
\* returns reply.text.  The status is 0: a task answers no request
send_auto_reply(task, reply) ==
    LET left == delivered(tasks, task)
    IN  IF task.post_id \notin DOMAIN posts \/ task.comment_id \notin DOMAIN comments
        THEN \* scalar_one() raises NoResultFound
             Outcome(0, no_result_found, "", None,
                     posts, comments, next_post_id, next_comment_id, left)
        ELSE IF ~replies(posts[task.post_id], comments[task.comment_id])
        THEN Outcome(0, "", "", None,
                     posts, comments, next_post_id, next_comment_id, left)
        ELSE IF reply.raised \/ comment_value_error(reply.text) # ""
        THEN \* only NoResultFound is caught: the exception ends the task
             Outcome(0, "task raised", "", None,
                     posts, comments, next_post_id, next_comment_id, left)
        ELSE LET row == reply_row(next_comment_id, posts[task.post_id],
                                  comments[task.comment_id], reply.text)
             IN  Outcome(0, "Auto reply has been created", "", row,
                         posts, comments @@ (next_comment_id :> row),
                         next_post_id, next_comment_id + 1,
                         after_reply(left, posts[task.post_id], row))

(***************************************************************************)
(* Requests and the specifications                                         *)
(***************************************************************************)
\* rows (posts and comments) the store may ever receive
MaxRows == 2

\* an answer of the AI service whose ratings are all below the threshold
CleanAnswer ==
    [kind |-> "response",
     candidates |-> <<[safety_ratings |-> <<[category |-> 7, probability |-> 1]>>]>>]
\* an answer of the AI service that rates the text as harassment
HarassmentAnswer ==
    [kind |-> "response",
     candidates |-> <<[safety_ratings |-> <<[category |-> 7, probability |-> 3]>>]>>]

\* the inputs a specification draws its requests from
Inputs(requesters, titles, contents, settings, field_sets, t_answers, c_answers, rows) ==
    [requesters |-> requesters, titles |-> titles, contents |-> contents,
     settings |-> settings, field_sets |-> field_sets,
     title_answers |-> t_answers, content_answers |-> c_answers, rows |-> rows,
     track |-> FALSE]

PostFields == {"title", "content", "auto_reply_enabled", "reply_delay"}

\* the bodies of POST /posts/create
PostCreates(in) ==
    {[title |-> t, content |-> c, auto_reply_enabled |-> s.enabled,
      reply_delay |-> s.delay] :
        t \in in.titles, c \in in.contents, s \in in.settings}

\* the bodies of PUT /posts/update.  The body is parsed by the dependency
\* moderate_content(data: PostCreate | CommentCreate), so it always has a
\* content: with a title it is a PostCreate, without one a CommentCreate.  The
\* fields of `fields` are set, and a field that is not set carries no value
\* (the placeholder is never read)
PostUpdates(in) ==
    UNION { {[fields |-> f, title |-> t, content |-> c,
              auto_reply_enabled |-> s.enabled, reply_delay |-> s.delay] :
                t \in IF "title" \in f THEN in.titles ELSE {<<>>},
                c \in IF "content" \in f THEN in.contents ELSE {<<>>},
                s \in IF f \cap {"auto_reply_enabled", "reply_delay"} # {}
                      THEN in.settings ELSE {[enabled |-> FALSE, delay |-> 0]}} :
            f \in {g \in in.field_sets : "content" \in g} }

\* the verdicts moderate_content may hand to a handler
PostVerdicts(in) ==
    {moderate_content(TRUE, at, ac) : at \in in.title_answers, ac \in in.content_answers}
CommentVerdicts(in) ==
    {moderate_content(FALSE, None, ac) : ac \in in.content_answers}
\* hasattr(data, 'title') holds for the body that was parsed as a PostCreate
UpdateVerdicts(in, data) ==
    IF "title" \in data.fields THEN PostVerdicts(in) ELSE CommentVerdicts(in)

\* the ids a request may name: the allocated ones and the next, unallocated one
PostIds == 1..next_post_id
CommentIds == 1..next_comment_id

\* the copies of tasks that `ts` holds and the queue does not hold yet
Added(ts) ==
    BagCardinality(ts (-) tasks)

\* the history after the outcome `out` of `op`: one more triggering request
\* when a create_comment on a post with auto_reply_enabled was answered 201,
\* the tasks that were enqueued, one more reply when the task stored a comment
Track(op, out) ==
    [triggered |-> pipeline.triggered +
         IF /\ op = "create_comment"
            /\ out.status = 201
            /\ posts[out.comments[next_comment_id].post_id].auto_reply_enabled
         THEN 1 ELSE 0,
     enqueued |-> pipeline.enqueued + Added(out.tasks),
     replied |-> pipeline.replied +
         IF op = "send_auto_reply" /\ out.next_comment_id # next_comment_id
         THEN 1 ELSE 0]

\* the outcome `out` of the request `op` of `user` (or of a task) is committed
\* and answered; in.rows bounds the rows the store ever receives
Commit(in, op, user, out) ==
    /\ (out.next_post_id - 1) + (out.next_comment_id - 1) <= in.rows
    /\ posts' = out.posts
    /\ comments' = out.comments
    /\ next_post_id' = out.next_post_id
    /\ next_comment_id' = out.next_comment_id
    /\ tasks' = out.tasks
    /\ last' = [op |-> op, user |-> user, status |-> out.status,
                detail |-> out.detail]
    /\ pipeline' = IF in.track THEN Track(op, out) ELSE pipeline
    /\ UNCHANGED <<gate_vars, reg_vars, txn_vars, today>>

ApiInit ==
    /\ posts = <<>>
    /\ comments = <<>>
    /\ next_post_id = 1
    /\ next_comment_id = 1
    /\ tasks = EmptyBag
    /\ last = [op |-> "init", user |-> Anonymous, status |-> 0, detail |-> ""]
    /\ today = 1
    /\ pipeline = [triggered |-> 0, enqueued |-> 0, replied |-> 0]

CreatePost(in) ==
    \E user \in in.requesters, post \in PostCreates(in), verdict \in PostVerdicts(in) :
        Commit(in, "create_post", user, create_post(user, post, verdict))

UpdatePost(in) ==
    \E user \in in.requesters, post_id \in PostIds, data \in PostUpdates(in) :
      \E verdict \in UpdateVerdicts(in, data) :
        Commit(in, "update_post", user, update_post(user, post_id, data, verdict))

DeletePost(in) ==
    \E user \in in.requesters, post_id \in PostIds :
        Commit(in, "delete_post", user, delete_post(user, post_id))

CreateComment(in) ==
    \E user \in in.requesters, post_id \in PostIds, content \in in.contents,
       parent_id \in {NoId} \cup CommentIds, verdict \in CommentVerdicts(in) :
        Commit(in, "create_comment", user,
               create_comment(user, post_id,
                              [content |-> content, parent_id |-> parent_id], verdict))

UpdateComment(in) ==
    \E user \in in.requesters, comment_id \in CommentIds, content \in in.contents,
       verdict \in CommentVerdicts(in) :
        Commit(in, "update_comment", user, update_comment(user, comment_id, content, verdict))

DeleteComment(in) ==
    \E user \in in.requesters, comment_id \in CommentIds :
        Commit(in, "delete_comment", user, delete_comment(user, comment_id))

ListPosts ==
    /\ last' = [op |-> "list_posts", user |-> Anonymous, status |-> 200,
                detail |-> ""]
    /\ UNCHANGED <<posts, comments, next_post_id, next_comment_id, tasks, today>>
    /\ UNCHANGED <<gate_vars, reg_vars, txn_vars, hist_vars>>

GetPost ==
    \E post_id \in PostIds :
        /\ last' = [op |-> "get_post", user |-> Anonymous,
                    status |-> get_post(post_id).status,
                    detail |-> get_post(post_id).detail]
        /\ UNCHANGED <<posts, comments, next_post_id, next_comment_id, tasks, today>>
        /\ UNCHANGED <<gate_vars, reg_vars, txn_vars, hist_vars>>

GetComment ==
    \E comment_id \in CommentIds :
        /\ last' = [op |-> "get_comment", user |-> Anonymous,
                    status |-> get_comment(comment_id).status,
                    detail |-> get_comment(comment_id).detail]
        /\ UNCHANGED <<posts, comments, next_post_id, next_comment_id, tasks, today>>
        /\ UNCHANGED <<gate_vars, reg_vars, txn_vars, hist_vars>>

\* the last calendar day the clock reaches
MaxDay == 2
\* the days a request may name
RequestDays == 0..MaxDay + 1

\* midnight passes
Tick ==
    /\ today < MaxDay
    /\ today' = today + 1
    /\ UNCHANGED <<posts, comments, next_post_id, next_comment_id, tasks, last>>
    /\ UNCHANGED <<gate_vars, reg_vars, txn_vars, hist_vars>>

Breakdown ==
    \E user \in Users, date_from \in RequestDays, date_to \in RequestDays :
        /\ last' = [op |-> "comments_daily_breakdown", user |-> user,
                    status |-> comments_daily_breakdown(user, date_from, date_to).status,
                    detail |-> comments_daily_breakdown(user, date_from, date_to).detail]
        /\ UNCHANGED <<posts, comments, next_post_id, next_comment_id, tasks, today>>
        /\ UNCHANGED <<gate_vars, reg_vars, txn_vars, hist_vars>>

\* what the reply-generation collaborator may do
Replies ==
    {[raised |-> TRUE, text |-> <<>>], [raised |-> FALSE, text |-> <<>>],
     [raised |-> FALSE, text |-> <<"a">>]}

\* the worker takes `task` from the queue and runs it to its end
Run(in, task) ==
    /\ task \in BagToSet(tasks)
    /\ \E reply \in Replies :
           Commit(in, "send_auto_reply", Anonymous, send_auto_reply(task, reply))

Worker(in) == \E task \in BagToSet(tasks) : Run(in, task)

\* the tasks the requests of `in` can enqueue: the ids of a post and of a
\* comment of a store of in.rows rows
Tasks(in) ==
    {[post_id |-> pc[1], comment_id |-> pc[2], countdown |-> 10 * s.delay] :
        pc \in {qd \in (1..in.rows) \X (1..in.rows) : qd[1] + qd[2] <= in.rows},
        s \in in.settings}

(***************************************************************************)
(* app/routers/users.py: register                                          *)
(***************************************************************************)
\* clients whose registrations may be in flight at the same time
MaxClients == 2
Clients == 1..MaxClients

\* the bodies of POST /users/register (the password plays no part)
RegisterPayloads == [username : {"u", "v"}, email : {"e", "f"}]

violates_uniqueMutUsername(payload) ==
    \E i \in DOMAIN user_rows : user_rows[i].username = payload.username
\* the unique indexes of users.username and users.email refuse the INSERT
violates_unique(payload) ==
    \E i \in DOMAIN user_rows :
        \/ user_rows[i].username = payload.username
        \/ user_rows[i].email = payload.email

\* `await db.commit()` of register and what follows it: the INSERT is flushed
\* and committed, or IntegrityError is answered by a rollback and 400
register(payload) ==
    IF violates_unique(payload)
    THEN [status |-> 400, detail |-> "Email or username already exists",
          user_rows |-> user_rows]
    ELSE [status |-> 200, detail |-> "User registered successfully",
          user_rows |-> Append(user_rows, payload)]

RegInit ==
    /\ user_rows = <<>>
    /\ registering = [c \in Clients |-> None]
    /\ reg_last = [client |-> 0, status |-> 0]

\* register up to db.add(new_user): the row waits in the session of the request
RegisterBegin(c) ==
    /\ registering[c] = None
    /\ \E payload \in RegisterPayloads :
           registering' = [registering EXCEPT ![c] = payload]
    /\ UNCHANGED <<user_rows, reg_last>>
    /\ UNCHANGED <<gate_vars, api_vars, txn_vars, hist_vars>>

\* register from `await db.commit()` to the response
RegisterCommit(c) ==
    /\ registering[c] # None
    /\ user_rows' = register(registering[c]).user_rows
    /\ reg_last' = [client |-> c, status |-> register(registering[c]).status]
    /\ registering' = [registering EXCEPT ![c] = None]
    /\ UNCHANGED <<gate_vars, api_vars, txn_vars, hist_vars>>

(***************************************************************************)
(* Requests that overlap: each handler runs in an AsyncSession of its own  *)
(* and gives way to the other requests at every `await`.  A request is     *)
(* split where it has read its rows and not yet committed.                 *)
(***************************************************************************)
\* the two requests in flight at the same time
Requests == {"first", "second"}

\* the columns an update handler assigns
UpdatedColumns ==
    {"title", "content", "is_blocked", "block_reason", "auto_reply_enabled",
     "reply_delay"}

\* `await db.commit()` of an object that was loaded as `loaded` and assigned to
\* become `assigned`, while the table holds `stored`: the unit of work emits
\* UPDATE ... SET for the columns whose assigned value differs from the loaded
\* one, and the other columns keep what the table holds
flush(stored, loaded, assigned) ==
    [col \in DOMAIN stored |->
        IF col \in UpdatedColumns /\ assigned[col] # loaded[col]
        THEN assigned[col]
        ELSE stored[col]]

\* update_post from the assignments to the response, for the request that
\* loaded the post as `ses.loaded`
finish_update_post(ses) ==
    IF update_value_error(ses.data) # ""
    THEN Refused(422, update_value_error(ses.data))
    ELSE IF ses.id \notin DOMAIN posts
    THEN \* the UPDATE matches no row: StaleDataError
         Refused(500, "Internal Server Error")
    ELSE LET row == flush(posts[ses.id], ses.loaded,
                          updated_post_row(ses.loaded, ses.data, ses.verdict))
         IN  \* `await db.refresh(post)` reads the row back
             check_blocked_obj_content(row, 200,
                 [posts EXCEPT ![ses.id] = row], comments,
                 next_post_id, next_comment_id, tasks)

\* update_comment from the assignments to the response
finish_update_comment(ses) ==
    IF comment_value_error(ses.content) # ""
    THEN Refused(500, "Internal Server Error")
    ELSE IF ses.id \notin DOMAIN comments
    THEN Refused(500, "Internal Server Error")
    ELSE LET row == flush(comments[ses.id], ses.loaded,
                          [ses.loaded EXCEPT !.content = ses.content,
                                             !.is_blocked = ses.verdict.blocked,
                                             !.block_reason = ses.verdict.reason])
         IN  check_blocked_obj_content(row, 200,
                 posts, [comments EXCEPT ![ses.id] = row],
                 next_post_id, next_comment_id, tasks)

parent_fk_violatedMutUnchecked(cs, parent_id) == FALSE
\* parent_id = Column(Integer, ForeignKey("comments.id"), nullable=True): the
\* database refuses a row whose parent_id names no row of `cs`
parent_fk_violated(cs, parent_id) ==
    parent_id # NoId /\ parent_id \notin DOMAIN cs

\* create_comment from create_new_comment to the response, for the request
\* whose checks of the post and of the parent have passed; `ses.loaded` is the
\* post it read
finish_create_comment(ses) ==
    IF create_new_comment_error(ses.comment) # 0
    THEN Refused(create_new_comment_error(ses.comment), "Internal Server Error")
    ELSE IF \/ ses.id \notin DOMAIN posts
            \/ parent_fk_violated(comments, ses.comment.parent_id)
    THEN \* the INSERT violates a foreign key: IntegrityError
         Refused(500, "Internal Server Error")
    ELSE LET row == new_comment_row(next_comment_id, ses.user, ses.id,
                                    ses.comment, ses.verdict)
         IN  check_blocked_obj_content(row, 201,
                 posts, comments @@ (next_comment_id :> row),
                 next_post_id, next_comment_id + 1,
                 IF schedules(ses.loaded, ses.verdict.blocked)
                 THEN apply_async(ses.loaded, row.id)
                 ELSE tasks)

\* delete_comment from the commit to the response, for the request whose
\* db.delete(comment) marked the comments of `ses.thread`: the DELETE of a
\* comment that has a reply outside the marked ones violates the foreign key
\* of the reply (IntegrityError)
finish_delete_comment(ses) ==
    LET left == [i \in DOMAIN comments \ ses.thread |-> comments[i]]
    IN  IF \E i \in DOMAIN left : parent_fk_violated(left, left[i].parent_id)
        THEN Refused(500, "Internal Server Error")
        ELSE Outcome(200, "Comment deleted successfully", "", None,
                     posts, left, next_post_id, next_comment_id, tasks)

TxnInit == sessions = [r \in Requests |-> None]

\* the request is answered without a session left open
Answer(in, op, user, out) ==
    /\ (out.next_post_id - 1) + (out.next_comment_id - 1) <= in.rows
    /\ posts' = out.posts
    /\ comments' = out.comments
    /\ next_post_id' = out.next_post_id
    /\ next_comment_id' = out.next_comment_id
    /\ tasks' = out.tasks
    /\ last' = [op |-> op, user |-> user, status |-> out.status,
                detail |-> out.detail]
    /\ UNCHANGED <<gate_vars, reg_vars, hist_vars, today>>

\* the request has read its rows and waits for its turn to go on; a request
\* that arrives while no other is in flight is called the first
Hold(r, ses) ==
    /\ r = "second" => sessions["first"] # None
    /\ sessions' = [sessions EXCEPT ![r] = ses]
    /\ UNCHANGED <<gate_vars, api_vars, reg_vars, hist_vars>>

\* update_post up to the authorisation check (posts.py 110-120)
BeginUpdatePost(in, r) ==
    /\ sessions[r] = None
    /\ \E user \in in.requesters, post_id \in PostIds, data \in PostUpdates(in) :
         \E verdict \in UpdateVerdicts(in, data) :
           IF user = Anonymous \/ post_id \notin DOMAIN posts
                 \/ ~may_update(user, posts[post_id])
           THEN /\ Answer(in, "update_post", user,
                          update_post(user, post_id, data, verdict))
                /\ UNCHANGED sessions
           ELSE Hold(r, [op |-> "update_post", user |-> user, id |-> post_id,
                         loaded |-> posts[post_id], data |-> data,
                         verdict |-> verdict])

\* update_post from the assignments to the response (posts.py 122-138)
FinishUpdatePost(in, r) ==
    /\ sessions[r] # None
    /\ sessions[r].op = "update_post"
    /\ Answer(in, "update_post", sessions[r].user, finish_update_post(sessions[r]))
    /\ sessions' = [sessions EXCEPT ![r] = None]

\* update_comment up to the authorisation check (comments.py 135-147)
BeginUpdateComment(in, r) ==
    /\ sessions[r] = None
    /\ \E user \in in.requesters, comment_id \in CommentIds,
          content \in in.contents, verdict \in CommentVerdicts(in) :
           IF user = Anonymous \/ comment_id \notin DOMAIN comments
                 \/ ~may_update(user, comments[comment_id])
           THEN /\ Answer(in, "update_comment", user,
                          update_comment(user, comment_id, content, verdict))
                /\ UNCHANGED sessions
           ELSE Hold(r, [op |-> "update_comment", user |-> user,
                         id |-> comment_id, loaded |-> comments[comment_id],
                         content |-> content, verdict |-> verdict])

\* update_comment from the assignments to the response (comments.py 149-156)
FinishUpdateComment(in, r) ==
    /\ sessions[r] # None
    /\ sessions[r].op = "update_comment"
    /\ Answer(in, "update_comment", sessions[r].user,
              finish_update_comment(sessions[r]))
    /\ sessions' = [sessions EXCEPT ![r] = None]

\* create_comment up to the checks of the post and of the parent
\* (comments.py 38-52)
BeginCreateComment(in, r) ==
    /\ sessions[r] = None
    /\ \E user \in in.requesters, post_id \in PostIds, content \in in.contents,
          parent_id \in {NoId} \cup CommentIds, verdict \in CommentVerdicts(in) :
           LET comment == [content |-> content, parent_id |-> parent_id]
               refused == \/ user = Anonymous
                          \/ post_id \notin DOMAIN posts
                          \/ check_post_blocked(posts[post_id])
                          \/ /\ parent_id # NoId
                             /\ check_parent_comment_blocked(parent_id) # 0
           IN  IF refused
               THEN /\ Answer(in, "create_comment", user,
                              create_comment(user, post_id, comment, verdict))
                    /\ UNCHANGED sessions
               ELSE Hold(r, [op |-> "create_comment", user |-> user,
                             id |-> post_id, loaded |-> posts[post_id],
                             comment |-> comment, verdict |-> verdict])

\* create_comment from create_new_comment to the response (comments.py 54-60)
FinishCreateComment(in, r) ==
    /\ sessions[r] # None
    /\ sessions[r].op = "create_comment"
    /\ Answer(in, "create_comment", sessions[r].user,
              finish_create_comment(sessions[r]))
    /\ sessions' = [sessions EXCEPT ![r] = None]

\* delete_comment up to `await db.delete(comment)`, which marks the comment
\* and, by the cascade of `replies`, the replies it finds (comments.py 183-195)
BeginDeleteComment(in, r) ==
    /\ sessions[r] = None
    /\ \E user \in in.requesters, comment_id \in CommentIds :
           IF user = Anonymous \/ comment_id \notin DOMAIN comments
                 \/ ~may_delete(user, comments[comment_id])
           THEN /\ Answer(in, "delete_comment", user, delete_comment(user, comment_id))
                /\ UNCHANGED sessions
           ELSE Hold(r, [op |-> "delete_comment", user |-> user, id |-> comment_id,
                         thread |-> descendants(comments, {comment_id})])

\* delete_comment from `await db.commit()` to the response (comments.py 196-198)
FinishDeleteComment(in, r) ==
    /\ sessions[r] # None
    /\ sessions[r].op = "delete_comment"
    /\ Answer(in, "delete_comment", sessions[r].user,
              finish_delete_comment(sessions[r]))
    /\ sessions' = [sessions EXCEPT ![r] = None]

Init == GateInit /\ ApiInit /\ RegInit /\ TxnInit

\* the settings of a post: auto-reply off, or on with a delay
ReplySettings == {[enabled |-> FALSE, delay |-> 0], [enabled |-> TRUE, delay |-> 1]}

\* the moderated write path, driven by one registered user
In ==
    Inputs({2}, {<<>>, <<" ">>, <<"t">>}, {<<>>, <<" ", " ">>, <<"a">>},
           ReplySettings,
           {{"content"}, {"title", "content"},
            {"title", "content", "auto_reply_enabled", "reply_delay"}},
           {CleanAnswer, HarassmentAnswer}, {None, CleanAnswer}, MaxRows)

Next ==
    \/ CreatePost(In)
    \/ UpdatePost(In)
    \/ DeletePost(In)
    \/ CreateComment(In)
    \/ UpdateComment(In)
    \/ DeleteComment(In)
    \/ ListPosts
    \/ Worker(In)

Spec == Init /\ [][Next]_vars

\* the authorization of mutations: every requester against every author
AuthIn ==
    Inputs({Anonymous} \cup Users, {<<"t">>}, {<<"a">>, <<"b">>},
           {[enabled |-> FALSE, delay |-> 0]},
           {{"title", "content"}},
           {CleanAnswer}, {CleanAnswer}, MaxRows)

NextAuth ==
    \/ CreatePost(AuthIn)
    \/ UpdatePost(AuthIn)
    \/ DeletePost(AuthIn)
    \/ CreateComment(AuthIn)
    \/ UpdateComment(AuthIn)
    \/ DeleteComment(AuthIn)

SpecAuth == Init /\ [][NextAuth]_vars

\* rows of the store in the specification of threads of comments
MaxThreadRows == 4

\* threads of comments with auto-reply: one user, valid texts, clean verdicts
ThreadIn ==
    Inputs({2}, {<<"t">>}, {<<"a">>}, {[enabled |-> TRUE, delay |-> 1]},
           {{"content"}}, {CleanAnswer}, {CleanAnswer}, MaxThreadRows)

NextThread ==
    \/ CreatePost(ThreadIn)
    \/ DeletePost(ThreadIn)
    \/ CreateComment(ThreadIn)
    \/ DeleteComment(ThreadIn)
    \/ Worker(ThreadIn)

SpecThread == Init /\ [][NextThread]_vars

\* rows of the store in the specification of the worker
MaxWorkerRows == 3

\* the worker against comments and posts of two users, and their deletion
WorkerIn ==
    Inputs(Users, {<<"t">>}, {<<"a">>}, {[enabled |-> TRUE, delay |-> 1]},
           {{"content"}}, {CleanAnswer}, {CleanAnswer}, MaxWorkerRows)

NextWorker ==
    \/ CreatePost(WorkerIn)
    \/ DeletePost(WorkerIn)
    \/ CreateComment(WorkerIn)
    \/ DeleteComment(WorkerIn)
    \/ Worker(WorkerIn)

SpecWorker == Init /\ [][NextWorker]_vars

\* rows of the store in the specification of the task queue
MaxQueueRows == 3

\* the queue against the comments and posts of one user, and their deletion
QueueIn ==
    Inputs({2}, {<<"t">>}, {<<"a">>}, {[enabled |-> TRUE, delay |-> 1]},
           {{"content"}}, {CleanAnswer}, {CleanAnswer}, MaxQueueRows)

NextQueue ==
    \/ CreatePost(QueueIn)
    \/ DeletePost(QueueIn)
    \/ CreateComment(QueueIn)
    \/ DeleteComment(QueueIn)
    \/ Worker(QueueIn)

\* a worker that leaves no task of the queue waiting for ever
SpecQueue ==
    /\ Init /\ [][NextQueue]_vars
    /\ \A task \in Tasks(QueueIn) : WF_vars(Run(QueueIn, task))

\* rows of the store in the specification of the block flags
MaxFlagRows == 3

\* the writers of is_blocked and block_reason: creations, updates, the worker
FlagIn ==
    Inputs({2}, {<<"t">>}, {<<"a">>}, {[enabled |-> TRUE, delay |-> 1]},
           {{"content"}}, {CleanAnswer}, {None, CleanAnswer, HarassmentAnswer},
           MaxFlagRows)

NextFlag ==
    \/ CreatePost(FlagIn)
    \/ UpdatePost(FlagIn)
    \/ CreateComment(FlagIn)
    \/ UpdateComment(FlagIn)
    \/ Worker(FlagIn)

SpecFlag == Init /\ [][NextFlag]_vars

\* rows of the store in the specification of the retrievals
MaxReadRows == 3

\* objects stored blocked or not, and the retrieval of each by its id
ReadIn ==
    Inputs({2}, {<<"t">>}, {<<"a">>}, {[enabled |-> FALSE, delay |-> 0]},
           {{"content"}}, {CleanAnswer}, {None, CleanAnswer, HarassmentAnswer},
           MaxReadRows)

NextRead ==
    \/ CreatePost(ReadIn)
    \/ CreateComment(ReadIn)
    \/ GetPost
    \/ GetComment

SpecRead == Init /\ [][NextRead]_vars

\* rows of the store in the specification of the analytics
MaxDayRows == 3

\* comments of several days, blocked or not
AnalyticsIn ==
    Inputs({2}, {<<"t">>}, {<<"a">>}, {[enabled |-> FALSE, delay |-> 0]},
           {{"content"}}, {CleanAnswer}, {None, CleanAnswer}, MaxDayRows)

NextAnalytics ==
    \/ CreatePost(AnalyticsIn)
    \/ CreateComment(AnalyticsIn)
    \/ Tick
    \/ Breakdown

SpecAnalytics == Init /\ [][NextAnalytics]_vars

\* rows of the store in the specification of the overlapping updates
MaxRaceRows == 2

\* one author, one text, and a gate that lets it pass or flags it
RaceIn ==
    Inputs({2}, {<<"t">>}, {<<"a">>}, {[enabled |-> FALSE, delay |-> 0]},
           {{"content"}}, {CleanAnswer}, {CleanAnswer, HarassmentAnswer},
           MaxRaceRows)

\* two updates of the same post or comment that overlap
NextRace ==
    \/ CreatePost(RaceIn)
    \/ CreateComment(RaceIn)
    \/ \E r \in Requests : BeginUpdatePost(RaceIn, r)
    \/ \E r \in Requests : FinishUpdatePost(RaceIn, r)
    \/ \E r \in Requests : BeginUpdateComment(RaceIn, r)
    \/ \E r \in Requests : FinishUpdateComment(RaceIn, r)

SpecRace == Init /\ [][NextRace]_vars

\* rows of the store in the specification of the overlapping creations
MaxOverlapRows == 3

\* one author, one text, and a gate that lets it pass or flags it
OverlapIn ==
    Inputs({2}, {<<"t">>}, {<<"a">>}, {[enabled |-> FALSE, delay |-> 0]},
           {{"content"}}, {CleanAnswer}, {CleanAnswer, HarassmentAnswer},
           MaxOverlapRows)

\* the creation of a comment that overlaps with an update of its post or of
\* its parent
NextOverlap ==
    \/ CreatePost(OverlapIn)
    \/ \E r \in Requests : BeginCreateComment(OverlapIn, r)
    \/ \E r \in Requests : FinishCreateComment(OverlapIn, r)
    \/ \E r \in Requests : BeginUpdatePost(OverlapIn, r)
    \/ \E r \in Requests : FinishUpdatePost(OverlapIn, r)
    \/ \E r \in Requests : BeginUpdateComment(OverlapIn, r)
    \/ \E r \in Requests : FinishUpdateComment(OverlapIn, r)

SpecOverlap == Init /\ [][NextOverlap]_vars

\* rows of the store in the specification of the auto-reply pipeline
MaxPipelineRows == 3

\* posts with and without auto-reply, comments that the gate lets pass or
\* flags, and the history of the pipeline
PipelineIn ==
    [Inputs({2}, {<<"t">>}, {<<"a">>}, ReplySettings, {{"content"}},
            {CleanAnswer}, {CleanAnswer, HarassmentAnswer}, MaxPipelineRows)
        EXCEPT !.track = TRUE]

NextPipeline ==
    \/ CreatePost(PipelineIn)
    \/ CreateComment(PipelineIn)
    \/ Worker(PipelineIn)

\* a worker that leaves no task of the queue waiting for ever
SpecPipeline ==
    /\ Init /\ [][NextPipeline]_vars
    /\ \A task \in Tasks(PipelineIn) : WF_vars(Run(PipelineIn, task))

\* rows of the store in the specification of the comment forest
MaxForestRows == 3

\* one author whose posts have auto-reply on
ForestIn ==
    Inputs({2}, {<<"t">>}, {<<"a">>}, {[enabled |-> TRUE, delay |-> 1]},
           {{"content"}}, {CleanAnswer}, {CleanAnswer}, MaxForestRows)

\* every writer of the comments table, the creations and the deletions
\* overlapping with the other requests
NextForest ==
    \/ CreatePost(ForestIn)
    \/ \E r \in Requests : BeginCreateComment(ForestIn, r)
    \/ \E r \in Requests : FinishCreateComment(ForestIn, r)
    \/ UpdateComment(ForestIn)
    \/ \E r \in Requests : BeginDeleteComment(ForestIn, r)
    \/ \E r \in Requests : FinishDeleteComment(ForestIn, r)
    \/ Worker(ForestIn)

SpecForest == Init /\ [][NextForest]_vars

\* rows of the store in the specification of the stale triggers
MaxTriggerRows == 3

\* posts whose auto-reply is switched on and off, and texts that the gate
\* lets pass or flags
TriggerIn ==
    Inputs({2}, {<<"t">>}, {<<"a">>}, ReplySettings,
           {{"content"}, {"title", "content", "auto_reply_enabled", "reply_delay"}},
           {CleanAnswer}, {CleanAnswer, HarassmentAnswer}, MaxTriggerRows)

\* updates of the post and of the comment between the enqueueing of a task
\* and its run
NextTrigger ==
    \/ CreatePost(TriggerIn)
    \/ UpdatePost(TriggerIn)
    \/ CreateComment(TriggerIn)
    \/ UpdateComment(TriggerIn)
    \/ Worker(TriggerIn)

SpecTrigger == Init /\ [][NextTrigger]_vars

\* rows of the store in the specification of the consistent AI service
MaxJudgedRows == 3

\* the texts that the AI service of SpecJudged rates as harassment
Flagged == {<<"x">>}

\* an AI service that answers the same for the same text: the final value of
\* `response` in moderate_content_with_ai(text)
generate_content(text) ==
    IF text \in Flagged THEN HarassmentAnswer ELSE CleanAnswer

\* moderate_content(data): the title, when the body has one, and then the
\* content are sent to the AI service
moderate_data(has_title, title, content) ==
    moderate_content(has_title,
                     IF has_title THEN generate_content(title) ELSE None,
                     generate_content(content))

\* titles and contents that the service flags or lets pass
JudgedIn ==
    Inputs({2}, {<<"t">>, <<"x">>}, {<<"a">>, <<"x">>},
           {[enabled |-> FALSE, delay |-> 0]},
           {{"content"}, {"title", "content"}},
           {CleanAnswer, HarassmentAnswer}, {CleanAnswer, HarassmentAnswer},
           MaxJudgedRows)

\* POST /posts/create behind the gate of the consistent service
JudgedCreatePost(in) ==
    \E user \in in.requesters, post \in PostCreates(in) :
        Commit(in, "create_post", user,
               create_post(user, post,
                           moderate_data(TRUE, post.title, post.content)))

\* PUT /posts/update/{post_id} behind the gate of the consistent service
JudgedUpdatePost(in) ==
    \E user \in in.requesters, post_id \in PostIds, data \in PostUpdates(in) :
        Commit(in, "update_post", user,
               update_post(user, post_id, data,
                           moderate_data("title" \in data.fields,
                                         data.title, data.content)))

\* creates and author updates of posts
NextJudged ==
    \/ JudgedCreatePost(JudgedIn)
    \/ JudgedUpdatePost(JudgedIn)

SpecJudged == Init /\ [][NextJudged]_vars

\* concurrent registrations
NextRegister ==
    \/ \E c \in Clients : RegisterBegin(c)
    \/ \E c \in Clients : RegisterCommit(c)

SpecRegister == Init /\ [][NextRegister]_vars

\* moderate_content_with_ai alone, against every answer of the AI service
GateNext ==
    \/ GateAttemptRaises /\ UNCHANGED <<api_vars, reg_vars, txn_vars, hist_vars>>
    \/ GateAttemptAnswers /\ UNCHANGED <<api_vars, reg_vars, txn_vars, hist_vars>>
    \/ GateReturn /\ UNCHANGED <<api_vars, reg_vars, txn_vars, hist_vars>>

SpecGate == Init /\ [][GateNext]_vars

(***************************************************************************)
(* Properties of moderate_content_with_ai (SpecGate)                       *)
(***************************************************************************)
\* the ratings of every candidate of a response, as (candidate, rating) pairs
RatingsOf(resp) ==
    {<<i, j>> \in (DOMAIN resp.candidates) \X (1..MaxRatings + 1) :
        j \in DOMAIN resp.candidates[i].safety_ratings}

RatingAt(resp, ij) == resp.candidates[ij[1]].safety_ratings[ij[2]]

\* C1: when every attempt to reach the AI service raises, the gate raises
\* nothing to its caller and returns blocked with the reason
\* "Error while AI text proceeds"
C1_FailClosed ==
    /\ gate_pc # "raised"
    /\ (gate_pc = "returned" /\ response = None) =>
           result = [blocked |-> TRUE, reason |-> "Error while AI text proceeds"]

\* every attempt of the loop raised, and the gate has returned
C1_Witness ==
    /\ gate_pc = "returned"
    /\ response = None
    /\ count = RetryLimit + 1
    /\ result.blocked

\* C2: of a response the gate inspects every candidate: a rating of
\* probability 2 or more in any candidate makes the gate return blocked, with
\* the mapped name of such a rating's category (UNKNOWN_CATEGORY for a category
\* outside the mapping) as the reason
C2_AnyCandidateBlocks ==
    (gate_pc = "returned" /\ response # None) =>
        \A ij \in RatingsOf(response) :
            RatingAt(response, ij).probability >= 2 =>
                /\ result.blocked
                /\ \E kl \in RatingsOf(response) :
                       /\ RatingAt(response, kl).probability >= 2
                       /\ result.reason = category_name(RatingAt(response, kl))

\* C3: a response without candidates, or without any rating of probability 2
\* or more, makes the gate return (False, "")
C3_NothingFlagged ==
    (/\ gate_pc = "returned"
     /\ response # None
     /\ \A ij \in RatingsOf(response) : RatingAt(response, ij).probability < 2)
        => result = [blocked |-> FALSE, reason |-> ""]

\* the gate has returned for a response whose candidates carry ratings, all of
\* them below 2
C3_Witness ==
    /\ gate_pc = "returned"
    /\ response # None
    /\ Len(response.candidates) = MaxCandidates
    /\ RatingsOf(response) # {}
    /\ \A ij \in RatingsOf(response) : RatingAt(response, ij).probability < 2
    /\ ~result.blocked

(***************************************************************************)
(* Properties of the endpoints (Spec, SpecAuth).  A property of a handler  *)
(* is stated for every request the handler may receive in the current      *)
(* state of the store.                                                     *)
(***************************************************************************)
\* a text that is empty or made of whitespace only
AllBlank(text) == \A i \in 1..Len(text) : text[i] = " "

\* `out` persisted the post next_post_id as blocked for `verdict` and answers
\* the 400 notice with the reason in place of the content
PostPersistedBlocked(out, verdict) ==
    /\ verdict.reason # ""
    /\ out.status = 400
    /\ out.block_reason = verdict.reason
    /\ out.body = None
    /\ DOMAIN out.posts = DOMAIN posts \cup {next_post_id}
    /\ out.posts[next_post_id].is_blocked
    /\ out.posts[next_post_id].block_reason = verdict.reason

\* the same for the comment next_comment_id
CommentPersistedBlocked(out, verdict) ==
    /\ verdict.reason # ""
    /\ out.status = 400
    /\ out.block_reason = verdict.reason
    /\ out.body = None
    /\ DOMAIN out.comments = DOMAIN comments \cup {next_comment_id}
    /\ out.comments[next_comment_id].is_blocked
    /\ out.comments[next_comment_id].block_reason = verdict.reason

\* `out` left the store and the task queue as they were
NothingDone(out) ==
    /\ out.posts = posts
    /\ out.comments = comments
    /\ out.next_post_id = next_post_id
    /\ out.next_comment_id = next_comment_id
    /\ out.tasks = tasks

\* the bodies of POST /comments/{post_id}/create
CommentCreates(in) ==
    [content : in.contents, parent_id : {NoId} \cup CommentIds]

\* C4 as claimed: whenever the gate flags the text of POST /posts/create, or of
\* POST /comments/{post_id}/create on an existing post that is not blocked, the
\* object is persisted as blocked with the gate's non-empty reason and the
\* response is the 400 notice carrying that reason
C4_FlaggedIsPersisted ==
    /\ \A user \in In.requesters, post \in PostCreates(In),
          verdict \in PostVerdicts(In) :
           verdict.blocked =>
               PostPersistedBlocked(create_post(user, post, verdict), verdict)
    /\ \A user \in In.requesters, post_id \in DOMAIN posts,
          comment \in CommentCreates(In), verdict \in CommentVerdicts(In) :
           (verdict.blocked /\ ~posts[post_id].is_blocked) =>
               CommentPersistedBlocked(
                   create_comment(user, post_id, comment, verdict), verdict)

\* C4, amended: the same, for texts that are not empty or whitespace-only and,
\* for a comment, a parent_id that is absent or names an existing comment that
\* is not blocked
C4_FlaggedValidIsPersisted ==
    /\ \A user \in In.requesters, post \in PostCreates(In),
          verdict \in PostVerdicts(In) :
           (verdict.blocked /\ ~AllBlank(post.title) /\ ~AllBlank(post.content)) =>
               PostPersistedBlocked(create_post(user, post, verdict), verdict)
    /\ \A user \in In.requesters, post_id \in DOMAIN posts,
          comment \in CommentCreates(In), verdict \in CommentVerdicts(In) :
           (/\ verdict.blocked
            /\ ~posts[post_id].is_blocked
            /\ ~AllBlank(comment.content)
            /\ \/ comment.parent_id = NoId
               \/ /\ comment.parent_id \in DOMAIN comments
                  /\ ~comments[comment.parent_id].is_blocked) =>
               CommentPersistedBlocked(
                   create_comment(user, post_id, comment, verdict), verdict)

\* a flagged post has just been created: it is stored blocked, with a reason,
\* and the request was answered 400
C4_Witness ==
    /\ last.op = "create_post"
    /\ last.status = 400
    /\ (next_post_id - 1) \in DOMAIN posts
    /\ posts[next_post_id - 1].is_blocked
    /\ posts[next_post_id - 1].block_reason = "HARM_CATEGORY_HARASSMENT"

\* C5: POST /posts/create by an authenticated user with a title or a content
\* that is empty or whitespace-only is answered 422, whatever the moderation
\* verdict, and persists no post
C5_BlankPostRejected ==
    \A user \in In.requesters \ {Anonymous}, post \in PostCreates(In),
       verdict \in PostVerdicts(In) :
        (AllBlank(post.title) \/ AllBlank(post.content)) =>
            LET out == create_post(user, post, verdict)
            IN  out.status = 422 /\ NothingDone(out)

\* a creation of a post has just been refused for an empty field
C5_Witness ==
    /\ last.op = "create_post"
    /\ last.status = 422
    /\ last.detail \in {"Title cannot be an empty string.",
                        "Content cannot be an empty string."}

\* C6: POST /comments/{post_id}/create on an existing post that is not blocked,
\* with a content that is empty or whitespace-only, is answered 422; no comment
\* is persisted and no task is enqueued
C6_BlankCommentRejected ==
    \A user \in In.requesters \ {Anonymous}, post_id \in DOMAIN posts,
       comment \in CommentCreates(In), verdict \in CommentVerdicts(In) :
        (/\ ~posts[post_id].is_blocked
         /\ AllBlank(comment.content)
         /\ comment.parent_id = NoId) =>
            LET out == create_comment(user, post_id, comment, verdict)
            IN  out.status = 422 /\ NothingDone(out)

\* C7: POST /comments/{post_id}/create is answered 403 when its target post is
\* blocked, and 403 when the request names a parent_id whose comment is
\* blocked; in both cases no comment is persisted and no task is enqueued
C7_BlockedTargetRefused ==
    \A user \in In.requesters \ {Anonymous}, post_id \in DOMAIN posts,
       comment \in CommentCreates(In), verdict \in CommentVerdicts(In) :
        (\/ posts[post_id].is_blocked
         \/ /\ comment.parent_id \in DOMAIN comments
            /\ comments[comment.parent_id].is_blocked) =>
            LET out == create_comment(user, post_id, comment, verdict)
            IN  out.status = 403 /\ NothingDone(out)

\* a comment has just been refused with 403 while no post is blocked: the
\* request named a blocked parent
C7_Witness ==
    /\ last.op = "create_comment"
    /\ last.status = 403
    /\ \A i \in DOMAIN posts : ~posts[i].is_blocked
    /\ \E i \in DOMAIN comments : comments[i].is_blocked

\* C8: an authenticated requester who is not the author of a post or comment
\* gets 403 for its update, superuser or not, and one who is neither its author
\* nor a superuser gets 403 for its delete; the store is left unchanged
C8_OnlyAuthorMutates ==
    /\ \A user \in Users, post_id \in DOMAIN posts,
          data \in PostUpdates(AuthIn) :
         \A verdict \in UpdateVerdicts(AuthIn, data) :
           user # posts[post_id].author_id =>
               LET out == update_post(user, post_id, data, verdict)
               IN  out.status = 403 /\ NothingDone(out)
    /\ \A user \in Users, comment_id \in DOMAIN comments,
          content \in AuthIn.contents, verdict \in CommentVerdicts(AuthIn) :
           user # comments[comment_id].author_id =>
               LET out == update_comment(user, comment_id, content, verdict)
               IN  out.status = 403 /\ NothingDone(out)
    /\ \A user \in Users, post_id \in DOMAIN posts :
           (user # posts[post_id].author_id /\ ~is_superuser(user)) =>
               LET out == delete_post(user, post_id)
               IN  out.status = 403 /\ NothingDone(out)
    /\ \A user \in Users, comment_id \in DOMAIN comments :
           (user # comments[comment_id].author_id /\ ~is_superuser(user)) =>
               LET out == delete_comment(user, comment_id)
               IN  out.status = 403 /\ NothingDone(out)

\* the superuser has just been refused the update of the other user's post
C8_Witness ==
    /\ last.op = "update_post"
    /\ last.user = 1
    /\ last.status = 403
    /\ \E i \in DOMAIN posts : posts[i].author_id = 2

\* C9: GET /posts/list returns exactly the stored posts that are not blocked
C9_ListIsUnblocked ==
    /\ \A i \in DOMAIN posts : (posts[i] \in list_posts) <=> ~posts[i].is_blocked
    /\ \A p \in list_posts : \E i \in DOMAIN posts : posts[i] = p

\* the list has just been served from a store that holds a blocked post and
\* one that is not
C9_Witness ==
    /\ last.op = "list_posts"
    /\ \E i \in DOMAIN posts : posts[i].is_blocked
    /\ \E i \in DOMAIN posts : ~posts[i].is_blocked

\* C10: create_comment enqueues an auto-reply task exactly when the comment
\* was persisted, the gate did not block it and the post has
\* auto_reply_enabled; it is one task, for (post_id, id of the new comment),
\* with a countdown of reply_delay * 10
C10_OneTaskIffEnabled ==
    \A user \in In.requesters, post_id \in PostIds,
       comment \in CommentCreates(In), verdict \in CommentVerdicts(In) :
        LET out == create_comment(user, post_id, comment, verdict)
            persisted == next_comment_id \in DOMAIN out.comments
        IN  IF /\ persisted
               /\ ~verdict.blocked
               /\ posts[post_id].auto_reply_enabled
            THEN out.tasks = tasks (+) SetToBag(
                     {[post_id |-> post_id, comment_id |-> next_comment_id,
                       countdown |-> posts[post_id].reply_delay * 10]})
            ELSE out.tasks = tasks

\* a comment has just been created under a post with auto-reply on, and its
\* task waits with a countdown of 10
C10_Witness ==
    /\ last.op = "create_comment"
    /\ last.status = 201
    /\ BagIn([post_id |-> comments[next_comment_id - 1].post_id,
              comment_id |-> next_comment_id - 1, countdown |-> 10], tasks)
    /\ BagCardinality(tasks) = 1

(***************************************************************************)
(* Properties of the auto-reply worker (SpecWorker) and of threads         *)
(* (SpecThread)                                                            *)
(***************************************************************************)
\* `out` added to the comments exactly one row, the reply of the post's author
\* to the comment of `task`, stored not blocked, and changed nothing else
ReplyInserted(out, task) ==
    /\ DOMAIN out.comments = DOMAIN comments \cup {next_comment_id}
    /\ next_comment_id \notin DOMAIN comments
    /\ \A i \in DOMAIN comments : out.comments[i] = comments[i]
    /\ out.posts = posts
    /\ out.comments[next_comment_id].author_id = posts[task.post_id].author_id
    /\ out.comments[next_comment_id].post_id = task.post_id
    /\ out.comments[next_comment_id].parent_id = task.comment_id
    /\ out.comments[next_comment_id].is_blocked = FALSE

RECURSIVE ReachesUp(_, _, _)
\* following the parent_id of comment i for at most n steps arrives at c
ReachesUp(i, c, n) ==
    \/ i = c
    \/ /\ n > 0
       /\ i \in DOMAIN comments
       /\ comments[i].parent_id \in DOMAIN comments
       /\ ReachesUp(comments[i].parent_id, c, n - 1)

\* c and the replies to c, transitively
Thread(c) == {i \in DOMAIN comments : ReachesUp(i, c, Cardinality(DOMAIN comments))}

\* C13: after a successful DELETE /comments/{id} of comment c, neither c nor
\* any transitive reply to c is stored, and every other comment is stored
\* unchanged
C13_DeleteRemovesThread ==
    \A user \in ThreadIn.requesters, c \in DOMAIN comments :
        LET out == delete_comment(user, c)
        IN  out.status = 200 =>
                /\ DOMAIN out.comments = DOMAIN comments \ Thread(c)
                /\ \A i \in DOMAIN out.comments : out.comments[i] = comments[i]
                /\ out.posts = posts

\* a delete has just succeeded in a store that had received a thread of three
\* comments, and took the whole thread away
C13_Witness ==
    /\ last.op = "delete_comment"
    /\ last.status = 200
    /\ next_comment_id = MaxThreadRows
    /\ DOMAIN comments = {}
    /\ DOMAIN posts # {}

\* C19: every comment with a parent_id has a parent that is stored and belongs
\* to the same post
C19_ParentOnSamePost ==
    \A i \in DOMAIN comments :
        comments[i].parent_id # NoId =>
            /\ comments[i].parent_id \in DOMAIN comments
            /\ comments[comments[i].parent_id].post_id = comments[i].post_id

\* C20: every stored comment has a post_id that is not NULL and names a stored
\* post
C20_CommentHasPost ==
    \A i \in DOMAIN comments :
        comments[i].post_id # NoId /\ comments[i].post_id \in DOMAIN posts

C15_UniqueUsers ==
    /\ \A payload \in RegisterPayloads :
           (\E i \in DOMAIN user_rows :
                \/ user_rows[i].username = payload.username
                \/ user_rows[i].email = payload.email) =>
               /\ register(payload).status = 400
               /\ register(payload).user_rows = user_rows
    /\ \A i, j \in DOMAIN user_rows :
           i # j => /\ user_rows[i].username # user_rows[j].username
                    /\ user_rows[i].email # user_rows[j].email

\* a registration has just been refused with 400 while another one, for the
\* email of a stored user, is still in flight
C15_Witness ==
    /\ reg_last.status = 400
    /\ user_rows # <<>>
    /\ \E c \in Clients :
           /\ registering[c] # None
           /\ \E i \in DOMAIN user_rows : user_rows[i].email = registering[c].email

(***************************************************************************)
(* Properties of the updates (Spec)                                        *)
(***************************************************************************)
\* the answer `out` and the stored `row` carry `verdict`: a flagged row is
\* stored blocked with the reason and answered by the 400 notice, a clean one
\* is stored not blocked and answered 200
StoredAsJudged(out, row, verdict) ==
    /\ row.is_blocked = verdict.blocked
    /\ row.block_reason = verdict.reason
    /\ IF verdict.blocked
       THEN /\ out.status = 400
            /\ out.detail = BlockedNotice
            /\ out.block_reason = verdict.reason
       ELSE out.status = 200

\* C18 as claimed: after every update of a post or a comment by its author the
\* stored is_blocked and block_reason are the verdict of the gate on the
\* request, whatever they were before; a flagged update stores the submitted
\* content and is answered by the 400 notice, a clean one is answered 200
C18_UpdateReappliesGate ==
    /\ \A user \in In.requesters, post_id \in DOMAIN posts,
          data \in PostUpdates(In) :
         \A verdict \in UpdateVerdicts(In, data) :
           posts[post_id].author_id = user =>
               LET out == update_post(user, post_id, data, verdict)
               IN  /\ StoredAsJudged(out, out.posts[post_id], verdict)
                   /\ "content" \in data.fields =>
                          out.posts[post_id].content = data.content
    /\ \A user \in In.requesters, comment_id \in DOMAIN comments,
          content \in In.contents, verdict \in CommentVerdicts(In) :
           comments[comment_id].author_id = user =>
               LET out == update_comment(user, comment_id, content, verdict)
               IN  /\ StoredAsJudged(out, out.comments[comment_id], verdict)
                   /\ out.comments[comment_id].content = content

\* C18, amended: the same, for updates whose submitted title and content are
\* not empty or whitespace-only
C18_ValidUpdateReappliesGate ==
    /\ \A user \in In.requesters, post_id \in DOMAIN posts,
          data \in PostUpdates(In) :
         \A verdict \in UpdateVerdicts(In, data) :
           (/\ posts[post_id].author_id = user
            /\ "title" \in data.fields => ~AllBlank(data.title)
            /\ "content" \in data.fields => ~AllBlank(data.content)) =>
               LET out == update_post(user, post_id, data, verdict)
               IN  /\ StoredAsJudged(out, out.posts[post_id], verdict)
                   /\ "content" \in data.fields =>
                          out.posts[post_id].content = data.content
    /\ \A user \in In.requesters, comment_id \in DOMAIN comments,
          content \in In.contents, verdict \in CommentVerdicts(In) :
           (comments[comment_id].author_id = user /\ ~AllBlank(content)) =>
               LET out == update_comment(user, comment_id, content, verdict)
               IN  /\ StoredAsJudged(out, out.comments[comment_id], verdict)
                   /\ out.comments[comment_id].content = content

\* the author has just updated a post and the gate let the request pass: the
\* post is stored not blocked, next to a comment stored blocked with a reason
C18_Witness ==
    /\ last.op = "update_post"
    /\ last.user = 2
    /\ last.status = 200
    /\ \E i \in DOMAIN posts : posts[i].author_id = 2 /\ ~posts[i].is_blocked
    /\ \E i \in DOMAIN comments :
           comments[i].is_blocked /\ comments[i].block_reason # ""

(***************************************************************************)
(* Properties of the analytics (SpecAnalytics)                             *)
(***************************************************************************)
\* C16: for a superuser and date_from <= date_to the breakdown has exactly one
\* entry per day of the inclusive range, with total_comments the number of
\* stored comments created that day and blocked_comments the number of those
\* that are blocked (0 and 0 for a day without comments); for a superuser and
\* date_from > date_to the answer is 400; for a user who is not a superuser it
\* is 403
C16_DailyBreakdown ==
    \A user \in Users, date_from \in RequestDays, date_to \in RequestDays :
        LET out == comments_daily_breakdown(user, date_from, date_to)
        IN  IF user # 1 THEN out.status = 403
            ELSE IF date_from > date_to THEN out.status = 400
            ELSE /\ out.status = 200
                 /\ DOMAIN out.body = {d \in RequestDays : date_from <= d /\ d <= date_to}
                 /\ \A d \in DOMAIN out.body :
                        /\ out.body[d].total_comments =
                               Cardinality({i \in DOMAIN comments :
                                               comments[i].created_at = d})
                        /\ out.body[d].blocked_comments =
                               Cardinality({i \in DOMAIN comments :
                                               /\ comments[i].created_at = d
                                               /\ comments[i].is_blocked})

\* the superuser has just been served the breakdown of a store with a blocked
\* comment of the first day and a comment of the second day
C16_Witness ==
    /\ last.op = "comments_daily_breakdown"
    /\ last.user = 1
    /\ last.status = 200
    /\ \E i \in DOMAIN comments : comments[i].created_at = 1 /\ comments[i].is_blocked
    /\ \E i \in DOMAIN comments : comments[i].created_at = 2

(***************************************************************************)
(* Properties of the retrievals (SpecRead)                                 *)
(***************************************************************************)
\* C17: GET /posts/{id} and GET /comments/{id} of an object stored with
\* is_blocked = TRUE never return the content of the object
C17_BlockedContentWithheld ==
    /\ \A i \in DOMAIN posts :
           posts[i].is_blocked =>
               \/ get_post(i).status # 200
               \/ get_post(i).body.content # posts[i].content
    /\ \A i \in DOMAIN comments :
           comments[i].is_blocked =>
               \/ get_comment(i).status # 200
               \/ get_comment(i).body.content # comments[i].content

(***************************************************************************)
(* The retry loop of moderate_content_with_ai (SpecGate)                   *)
(***************************************************************************)
\* C21: when the AI call raises on every attempt the loop ends after at most 3
\* retries and sleeps only between attempts: it never sleeps more than 3
\* times, and when it has returned it has slept less often than it attempted
C21_ThreeSleepsBetweenAttempts ==
    /\ count - 1 <= 3
    /\ sleeps <= 3
    /\ (gate_pc = "returned" /\ response = None) => sleeps <= count - 1

(***************************************************************************)
(* The two fields of a post (Spec)                                         *)
(***************************************************************************)
\* the verdict on a request with a title whose fields the AI service answered
\* with `at` and `ac`: blocked when either field is flagged, with the reason
\* of the title when the title is flagged and of the content otherwise
EitherField(at, ac) ==
    [blocked |-> inspect(at).blocked \/ inspect(ac).blocked,
     reason |-> IF inspect(at).blocked THEN inspect(at).reason
                ELSE inspect(ac).reason]

\* C22: a post create or update that carries a title is blocked exactly when
\* its title or its content is flagged, and the row it stores has the reason
\* of the title when the title is flagged, of the content otherwise
C22_TitleAndContentJudged ==
    \A at \in In.title_answers, ac \in In.content_answers :
        LET verdict == moderate_content(TRUE, at, ac)
        IN  /\ verdict = EitherField(at, ac)
            /\ \A user \in In.requesters, post \in PostCreates(In) :
                   LET out == create_post(user, post, verdict)
                   IN  out.next_post_id # next_post_id =>
                           /\ out.posts[next_post_id].is_blocked =
                                  EitherField(at, ac).blocked
                           /\ out.posts[next_post_id].block_reason =
                                  EitherField(at, ac).reason
                           /\ out.status = 400 <=> EitherField(at, ac).blocked
            /\ \A user \in In.requesters, post_id \in DOMAIN posts,
                  data \in PostUpdates(In) :
                   LET out == update_post(user, post_id, data, verdict)
                   IN  ("title" \in data.fields /\ out.status \in {200, 400}) =>
                           /\ out.posts[post_id].is_blocked =
                                  EitherField(at, ac).blocked
                           /\ out.posts[post_id].block_reason =
                                  EitherField(at, ac).reason
                           /\ out.status = 400 <=> EitherField(at, ac).blocked

\* a post update has just been answered by the blocked notice, and the store
\* holds a post blocked for its title and a post blocked for its content
C22_Witness ==
    /\ last.op = "update_post"
    /\ last.status = 400
    /\ \E i \in DOMAIN posts :
           posts[i].is_blocked /\ posts[i].block_reason = "HARM_CATEGORY_HARASSMENT"
    /\ \E i \in DOMAIN posts :
           posts[i].is_blocked /\ posts[i].block_reason = "Error while AI text proceeds"

(***************************************************************************)
(* The life of a task (SpecQueue)                                     *)
(***************************************************************************)
\* the step enqueues `task` for the comment it has just stored and answers
\* the request while the task is pending
Enqueued(task) ==
    /\ task \notin BagToSet(tasks)
    /\ task \in BagToSet(tasks')
    /\ last'.op = "create_comment"
    /\ last'.status = 201
    /\ task.comment_id = next_comment_id
    /\ CopiesIn(task, tasks') = 1

\* the step is the run of `task`, which leaves the queue having inserted one
\* reply to its comment or nothing
Ran(task) ==
    /\ task \in BagToSet(tasks)
    /\ task \notin BagToSet(tasks')
    /\ last'.op = "send_auto_reply"
    /\ posts' = posts
    /\ \/ comments' = comments
       \/ /\ DOMAIN comments' = DOMAIN comments \cup {next_comment_id}
          /\ \A i \in DOMAIN comments : comments'[i] = comments[i]
          /\ comments'[next_comment_id].parent_id = task.comment_id

\* C23: a task enters the queue only with the answer to the create_comment
\* that enqueued it, leaves it only by its own run, which inserts one reply or
\* nothing, and under a fair worker every task of the queue runs, also after
\* its post or its comment was deleted
C23_TaskRunsToItsEnd ==
    /\ [][\A task \in Tasks(QueueIn) :
             /\ (CopiesIn(task, tasks') > CopiesIn(task, tasks)) => Enqueued(task)
             /\ (CopiesIn(task, tasks') < CopiesIn(task, tasks)) => Ran(task)]_vars
    /\ \A task \in Tasks(QueueIn) :
           (task \in BagToSet(tasks)) ~> (task \notin BagToSet(tasks))

\* a task has run to its end after the post of its comment was deleted, and
\* the queue is empty
C23_Witness ==
    /\ last.op = "send_auto_reply"
    /\ tasks = EmptyBag
    /\ posts = <<>>
    /\ comments # <<>>

(***************************************************************************)
(* Requests that overlap (SpecRace, SpecOverlap)                           *)
(***************************************************************************)
\* C24: an update of a post or of a comment that commits and is answered leaves
\* the row with the content, the is_blocked and the block_reason of that very
\* request, whatever other update of the same row committed while it was in
\* flight
C24_LastCommitWins ==
    \A r \in Requests :
        sessions[r] # None =>
            LET ses == sessions[r]
            IN  /\ ses.op = "update_post" =>
                       LET out == finish_update_post(ses)
                       IN  out.status \in {200, 400} =>
                               /\ out.posts[ses.id].content = ses.data.content
                               /\ out.posts[ses.id].is_blocked = ses.verdict.blocked
                               /\ out.posts[ses.id].block_reason = ses.verdict.reason
                /\ ses.op = "update_comment" =>
                       LET out == finish_update_comment(ses)
                       IN  out.status \in {200, 400} =>
                               /\ out.comments[ses.id].content = ses.content
                               /\ out.comments[ses.id].is_blocked = ses.verdict.blocked
                               /\ out.comments[ses.id].block_reason = ses.verdict.reason

\* C29: a create_comment that commits its comment does so on a post that is
\* stored not blocked and under a parent that is stored not blocked at that
\* moment, whatever updates committed while it was in flight
C29_NoCommentUnderBlocked ==
    \A r \in Requests :
        (sessions[r] # None /\ sessions[r].op = "create_comment") =>
            LET ses == sessions[r]
                out == finish_create_comment(ses)
            IN  out.next_comment_id # next_comment_id =>
                    /\ ~posts[ses.id].is_blocked
                    /\ ses.comment.parent_id # NoId =>
                           ~comments[ses.comment.parent_id].is_blocked

(***************************************************************************)
(* The auto-reply pipeline (SpecPipeline)                                  *)
(***************************************************************************)
\* C25: the run of a task enqueues nothing; the replies stored by the worker
\* are never more than the tasks enqueued, which are as many as the
\* create_comment requests answered 201 on posts with auto_reply_enabled; and
\* once the requests have stopped the queue is empty for good
C25_RepliesTriggerNothing ==
    /\ [][last'.op = "send_auto_reply" =>
              pipeline'.enqueued = pipeline.enqueued]_vars
    /\ [](/\ pipeline.replied <= pipeline.enqueued
          /\ pipeline.enqueued = pipeline.triggered)
    /\ <>[](tasks = EmptyBag)

\* the worker has stored the reply to the comment that triggered the one
\* task, and the queue is empty
C25_Witness ==
    /\ last.op = "send_auto_reply"
    /\ pipeline = [triggered |-> 1, enqueued |-> 1, replied |-> 1]
    /\ tasks = EmptyBag

(***************************************************************************)
(* The comment forest (SpecForest)                                         *)
(***************************************************************************)
\* C26: in every reachable state every parent_id that is not NULL names a
\* stored comment, and no comment is reached from its own parent by following
\* parent_id links
C26_ParentsAreAForest ==
    \A i \in DOMAIN comments :
        comments[i].parent_id # NoId =>
            /\ comments[i].parent_id \in DOMAIN comments
            /\ ~ReachesUp(comments[i].parent_id, i, Cardinality(DOMAIN comments))

\* a deletion has just been refused by the foreign key of a reply that was
\* committed while the deletion was in flight: the reply and its parent are
\* both stored
C26_Witness ==
    /\ last.op = "delete_comment"
    /\ last.status = 500
    /\ \E i \in DOMAIN comments : comments[i].parent_id \in DOMAIN comments

(***************************************************************************)
(* Tasks whose trigger condition no longer holds (SpecTrigger)             *)
(***************************************************************************)
\* the condition under which `task` was enqueued does not hold any more: its
\* comment is stored blocked, or its post is stored blocked or with
\* auto_reply_enabled = FALSE
Stale(task) ==
    \/ comments[task.comment_id].is_blocked
    \/ posts[task.post_id].is_blocked
    \/ ~posts[task.post_id].auto_reply_enabled

C28_UnblockedPostsJudgedClean ==
    \A i \in DOMAIN posts :
        ~posts[i].is_blocked =>
            /\ ~inspect(generate_content(posts[i].title)).blocked
            /\ ~inspect(generate_content(posts[i].content)).blocked

(***************************************************************************)
(* What an update leaves alone (SpecTrigger)                               *)
(***************************************************************************)
\* the comment `new` is the comment `old` but for its content, is_blocked and
\* block_reason
SameButText(old, new) ==
    new = [old EXCEPT !.content = new.content, !.is_blocked = new.is_blocked,
                      !.block_reason = new.block_reason]

\* the step is an update that was committed: it was answered with the row
\* (200) or with the notice of a blocked row (400)
Updated(op) ==
    last'.op = op /\ last'.status \in {200, 400}

\* C30: an update_comment that commits changes at most one comment, and of it
\* only content, is_blocked and block_reason, and changes no post; an
\* update_post that commits changes no comment and no post's author_id
C30_UpdatesKeepTheRest ==
    [][/\ Updated("update_comment") =>
            /\ posts' = posts
            /\ DOMAIN comments' = DOMAIN comments
            /\ \A i \in DOMAIN comments : SameButText(comments[i], comments'[i])
            /\ Cardinality({i \in DOMAIN comments : comments'[i] # comments[i]}) <= 1
       /\ Updated("update_post") =>
            /\ comments' = comments
            /\ DOMAIN posts' = DOMAIN posts
            /\ \A i \in DOMAIN posts : posts'[i].author_id = posts[i].author_id
            /\ Cardinality({i \in DOMAIN posts : posts'[i] # posts[i]}) <= 1]_vars

\* an update_comment has just stored a flagged text in a comment that keeps
\* its parent, a comment that is stored not blocked
C30_Witness ==
    /\ last.op = "update_comment"
    /\ last.status = 400
    /\ \E i \in DOMAIN comments :
        /\ comments[i].is_blocked
        /\ comments[i].parent_id \in DOMAIN comments
        /\ ~comments[comments[i].parent_id].is_blocked
        /\ comments[i].post_id \in DOMAIN posts

====
